---- MODULE Spec2Model ----
(***************************************************************************)
(* State-machine model of the sam3dserver services:                        *)
(*   services/sam3d_service.py   SAM3DService  (conversion orchestrator)   *)
(*   services/render_service.py  RenderService (render backend chain)      *)
(* Python strings that the code inspects (exception messages, returned     *)
(* error texts) are sequences of one-character strings, so that str.lower  *)
(* and the substring test `in` are computed as Python computes them.       *)
(***************************************************************************)
EXTENDS Integers, Sequences, FiniteSets, TLC

VARIABLES
    fal_key,      \* SAM3DService.fal_key, read from the environment once
    renderer,     \* RenderService.renderer, chosen by _detect_renderer
    cpc,          \* position of the convert_2d_to_3d call
    cargs,        \* its arguments: prompt, seed
    image_url,    \* local image_url of convert_2d_to_3d
    result,       \* local result of convert_2d_to_3d (job payload or None)
    resultFrom,   \* which submission (1 or 2) produced result; 0 = none
    glb_url,      \* local glb_url of convert_2d_to_3d
    ctrace,       \* remote/file operations issued by the current convert call
    subs,         \* arguments dict of every fal_client.subscribe of the call
    meshFile,     \* the file at output_path
    cret,         \* dict returned by convert_2d_to_3d
    rpc,          \* position of the render_angle call
    rargs,        \* its arguments: mesh on disk, resolution
    rexc,         \* exception e bound by the outer except of render_angle
    rtrace,       \* steps taken by the current render_angle call
    renderDir,    \* does Path(output_path).parent exist
    renderFile,   \* the file at the render output_path
    rret,         \* dict returned by render_angle
    probes,       \* what the imports tried by _detect_renderer did at startup
    reqs,         \* the HTTP requests of the router and where each handler is
    loop,         \* the request running on the event-loop thread; 0 = none
    models,       \* the files of storage/models, by model identifier
    renders       \* the files written to storage/renders, with their writer

vars == <<fal_key, renderer, cpc, cargs, image_url, result, resultFrom,
          glb_url, ctrace, subs, meshFile, cret,
          rpc, rargs, rexc, rtrace, renderDir, renderFile, rret,
          probes, reqs, loop, models, renders>>

hvars == <<reqs, loop, models, renders>>

cvars == <<cpc, cargs, image_url, result, resultFrom, glb_url, ctrace, subs,
           meshFile, cret>>

rvars == <<rpc, rargs, rexc, rtrace, renderDir, renderFile, rret>>

-----------------------------------------------------------------------------
(* Bounds *)

MaxGlbs == 1

MaxGeoms == 2

MaxCount == 1

MaxRequests == 2

MaxClock == 1

-----------------------------------------------------------------------------
(* Python strings *)

UpperCase ==
    <<"A","B","C","D","E","F","G","H","I","J","K","L","M",
      "N","O","P","Q","R","S","T","U","V","W","X","Y","Z">>

LowerCase ==
    <<"a","b","c","d","e","f","g","h","i","j","k","l","m",
      "n","o","p","q","r","s","t","u","v","w","x","y","z">>

LowerChar(c) ==
    IF \E i \in DOMAIN UpperCase : UpperCase[i] = c
    THEN LowerCase[CHOOSE i \in DOMAIN UpperCase : UpperCase[i] = c]
    ELSE c

\* str.lower()
Lower(s) ==
    [i \in DOMAIN s |-> LowerChar(s[i])]

\* needle in s
Contains(needle, s) ==
    \E i \in 0..(Len(s) - Len(needle)) :
        \A j \in 1..Len(needle) : s[i + j] = needle[j]

ERR_NO_KEY ==
    <<"F","A","L","_","K","E","Y"," ","n","o","t"," ","c","o","n","f","i",
      "g","u","r","e","d","."," ","G","e","t"," ","y","o","u","r"," ","k",
      "e","y"," ","a","t"," ","h","t","t","p","s",":","/","/","f","a","l",
      ".","a","i","/","d","a","s","h","b","o","a","r","d","/","k","e","y",
      "s">>

ERR_NO_OBJECTS ==
    <<"S","A","M"," ","3","D"," ","c","o","u","l","d"," ","n","o","t"," ",
      "d","e","t","e","c","t"," ","o","b","j","e","c","t","s"," ","i","n",
      " ","t","h","i","s"," ","i","m","a","g","e","."," ","T","r","y"," ",
      "a"," ","d","i","f","f","e","r","e","n","t"," ","i","m","a","g","e",
      " ","w","i","t","h"," ","a"," ","c","l","e","a","r","e","r"," ","s",
      "u","b","j","e","c","t",".">>

ERR_NO_GLB ==
    <<"N","o"," ","G","L","B"," ","m","o","d","e","l"," ","i","n"," ","S",
      "A","M"," ","3","D"," ","r","e","s","p","o","n","s","e","."," ","C",
      "h","e","c","k"," ","i","m","a","g","e"," ","q","u","a","l","i","t",
      "y"," ","o","r"," ","p","r","o","m","p","t",".">>

ERR_NO_FAL_CLIENT ==
    <<"f","a","l","-","c","l","i","e","n","t"," ","p","a","c","k","a","g",
      "e"," ","n","o","t"," ","i","n","s","t","a","l","l","e","d">>

NEEDLE_NO_MASKS ==
    <<"n","o"," ","m","a","s","k","s">>

NEEDLE_AUTO_SEG ==
    <<"A","u","t","o","-","s","e","g","m","e","n","t","a","t","i","o","n">>

MSG_NO_MASKS ==
    <<"N","o"," ","m","a","s","k","s"," ","f","o","u","n","d">>

MSG_NO_MASKS_UPPER ==
    <<"N","O"," ","M","A","S","K","S">>

MSG_AUTO_SEG ==
    <<"A","u","t","o","-","s","e","g","m","e","n","t","a","t","i","o","n",
      " ","f","a","i","l","e","d">>

MSG_AUTO_SEG_LOWER ==
    <<"a","u","t","o","-","s","e","g","m","e","n","t","a","t","i","o","n",
      " ","f","a","i","l","e","d">>

MSG_TIMEOUT ==
    <<"t","i","m","e","d"," ","o","u","t">>

MSG_KEY_ZERO ==
    <<"0">>

MSG_NO_LEN ==
    <<"o","b","j","e","c","t"," ","o","f"," ","t","y","p","e"," ","'","i",
      "n","t","'"," ","h","a","s"," ","n","o"," ","l","e","n","(",")">>

MSG_NO_KEYS ==
    <<"'","s","t","r","'"," ","o","b","j","e","c","t"," ","h","a","s"," ",
      "n","o"," ","a","t","t","r","i","b","u","t","e"," ","'","k","e","y",
      "s","'">>

MSG_BAD_URL ==
    <<"I","n","v","a","l","i","d"," ","t","y","p","e"," ","f","o","r"," ",
      "u","r","l">>

MSG_HTTP_STATUS ==
    <<"S","e","r","v","e","r"," ","e","r","r","o","r"," ","'","5","0","0",
      " ","I","n","t","e","r","n","a","l"," ","S","e","r","v","e","r"," ",
      "E","r","r","o","r","'">>

MSG_OS_ERROR ==
    <<"N","o"," ","s","p","a","c","e"," ","l","e","f","t"," ","o","n"," ",
      "d","e","v","i","c","e">>

MSG_NO_MODULE ==
    <<"N","o"," ","m","o","d","u","l","e"," ","n","a","m","e","d"," ","'",
      "f","a","l","_","c","l","i","e","n","t","'">>

MSG_NO_SUCH_FILE ==
    <<"N","o"," ","s","u","c","h"," ","f","i","l","e"," ","o","r"," ","d",
      "i","r","e","c","t","o","r","y">>

MSG_BACKEND ==
    <<"F","a","i","l","e","d"," ","t","o"," ","r","e","n","d","e","r"," ",
      "s","c","e","n","e">>

MSG_BAD_MESH ==
    <<"f","i","l","e","_","t","y","p","e"," ","n","o","t"," ","s","p","e",
      "c","i","f","i","e","d">>

MSG_BAD_SIZE ==
    <<"n","o","t"," ","e","n","o","u","g","h"," ","v","a","l","u","e","s",
      " ","t","o"," ","u","n","p","a","c","k">>

-----------------------------------------------------------------------------
(* Exceptions *)

NoExc ==
    [cls |-> "none", msg |-> <<>>]

Exc(cls, msg) ==
    [cls |-> cls, msg |-> msg]

\* messages of the exceptions the remote steps raise
RemoteMessages ==
    {MSG_NO_MASKS, MSG_NO_MASKS_UPPER, MSG_AUTO_SEG, MSG_AUTO_SEG_LOWER,
     MSG_TIMEOUT, <<>>}

\* ImportError is told apart by the except clauses of convert_2d_to_3d
RemoteExceptions ==
    {Exc(c, m) : c \in {"Exception", "ImportError"}, m \in RemoteMessages}

\* variant: both needles are looked up in the lower-cased message
IsSegmentationErrorAnyCase(e) ==
    \/ Contains(NEEDLE_NO_MASKS, Lower(e.msg))
    \/ Contains(Lower(NEEDLE_AUTO_SEG), Lower(e.msg))

\* the test of the except clause of _call_fal_api
IsSegmentationError(e) ==
    \/ Contains(NEEDLE_NO_MASKS, Lower(e.msg))
    \/ Contains(NEEDLE_AUTO_SEG, e.msg)

-----------------------------------------------------------------------------
(* Job payloads: the values fal_client.subscribe returns *)

URL_OBJECT == "https://fal.media/object_0.glb"

URL_SCENE == "https://fal.media/scene.glb"

UrlStrings ==
    {"", URL_OBJECT, URL_SCENE}

\* a JSON value found where a mesh reference is expected
StrRef(s) ==
    [t |-> "str", hasUrl |-> FALSE, empty |-> (s = ""), s |-> s]

DictRef(s) ==
    [t |-> "dict", hasUrl |-> TRUE, empty |-> FALSE, s |-> s]

DictNoUrl ==
    [t |-> "dict", hasUrl |-> FALSE, empty |-> FALSE, s |-> ""]

EmptyDict ==
    [t |-> "dict", hasUrl |-> FALSE, empty |-> TRUE, s |-> ""]

IntRef ==
    [t |-> "int", hasUrl |-> FALSE, empty |-> FALSE, s |-> ""]

NoneRef ==
    [t |-> "none", hasUrl |-> FALSE, empty |-> TRUE, s |-> ""]

Refs ==
    {StrRef(s) : s \in UrlStrings} \cup {DictRef(s) : s \in UrlStrings}
        \cup {DictNoUrl, EmptyDict, IntRef, NoneRef}

SeqsUpTo(S, n) ==
    UNION {[1..k -> S] : k \in 0..n}

\* the individual_glbs field: a list, or a value of another type
ListField(items) ==
    [t |-> "list", items |-> items, ref |-> NoneRef]

ScalarField(ref) ==
    [t |-> ref.t, items |-> <<>>, ref |-> ref]

IndividualGlbsValues ==
    {ListField(items) : items \in SeqsUpTo(Refs \ {NoneRef}, MaxGlbs)}
        \cup {ScalarField(r) : r \in {NoneRef, StrRef(URL_OBJECT),
                                     DictRef(URL_OBJECT), IntRef}}

ModelGlbValues ==
    Refs

NonePayload ==
    [t |-> "none", individual_glbs |-> ScalarField(NoneRef),
     model_glb |-> NoneRef]

\* a return value that is neither a dict nor None
OtherPayload ==
    [t |-> "other", individual_glbs |-> ScalarField(NoneRef),
     model_glb |-> NoneRef]

DictPayload(ig, mg) ==
    [t |-> "dict", individual_glbs |-> ig, model_glb |-> mg]

Payloads ==
    {DictPayload(ig, mg) : ig \in IndividualGlbsValues, mg \in ModelGlbValues}
        \cup {NonePayload, OtherPayload}

-----------------------------------------------------------------------------
(* SAM3DService._extract_glb_url *)

\* Python truth value of a mesh reference value
TruthyRef(r) ==
    CASE r.t = "none" -> FALSE
      [] r.t = "str"  -> r.s # ""
      [] r.t = "dict" -> ~r.empty
      [] OTHER        -> TRUE

TruthyField(f) ==
    IF f.t = "list" THEN Len(f.items) > 0 ELSE TruthyRef(f.ref)

\* s[0] of a non-empty str
FirstChar(s) ==
    CASE s = URL_OBJECT -> "h"
      [] s = URL_SCENE  -> "h"
      [] OTHER          -> s

\* what a function returns: a str, None, or a raised exception
Returned(s) ==
    [exc |-> NoExc, none |-> FALSE, s |-> s]

ReturnedNone ==
    [exc |-> NoExc, none |-> TRUE, s |-> ""]

Raised(e) ==
    [exc |-> e, none |-> TRUE, s |-> ""]

\* lines 164-171: the combined model GLB
ExtractModelGlb(model_glb) ==
    IF TruthyRef(model_glb)
    THEN CASE model_glb.t = "dict" /\ model_glb.hasUrl -> Returned(model_glb.s)
           [] model_glb.t = "str" -> Returned(model_glb.s)
           [] OTHER -> ReturnedNone
    ELSE ReturnedNone

\* lines 157-161: the first individual GLB
ExtractFirst(first, model_glb) ==
    CASE first.t = "dict" /\ first.hasUrl -> Returned(first.s)
      [] first.t = "str" -> Returned(first.s)
      [] OTHER -> ExtractModelGlb(model_glb)

\* variant: the combined model GLB is looked up before the individual ones
ExtractCombinedFirst(payload) ==
    LET ig == payload.individual_glbs
        mg == ExtractModelGlb(payload.model_glb)
    IN  IF ~mg.none
        THEN mg
        ELSE IF TruthyField(ig)
             THEN CASE ig.t = "list" -> ExtractFirst(ig.items[1], NoneRef)
                    [] ig.t = "str" ->
                          ExtractFirst(StrRef(FirstChar(ig.ref.s)), NoneRef)
                    [] ig.t = "dict" -> Raised(Exc("Exception", MSG_KEY_ZERO))
                    [] OTHER -> Raised(Exc("Exception", MSG_NO_LEN))
             ELSE ReturnedNone

_extract_glb_url(payload) ==
    LET ig == payload.individual_glbs
        mg == payload.model_glb
    IN  IF TruthyField(ig)
        THEN CASE ig.t = "list" -> ExtractFirst(ig.items[1], mg)
               [] ig.t = "str"  -> ExtractFirst(StrRef(FirstChar(ig.ref.s)), mg)
               [] ig.t = "dict" -> Raised(Exc("Exception", MSG_KEY_ZERO))
               [] OTHER         -> Raised(Exc("Exception", MSG_NO_LEN))
        ELSE ExtractModelGlb(mg)

-----------------------------------------------------------------------------
(* SAM3DService._get_mesh_stats *)

\* one geometry: its vertices and faces attributes, when it has them
Geom(hasV, nv, hasF, nf) ==
    [hasV |-> hasV, nv |-> nv, hasF |-> hasF, nf |-> nf]

\* an attribute is absent, or holds 0..MaxCount elements
AttrValues ==
    {<<FALSE, 0>>} \cup {<<TRUE, n>> : n \in 0..MaxCount}

Geoms ==
    {Geom(v[1], v[2], f[1], f[2]) : v \in AttrValues, f \in AttrValues}

\* what trimesh.load yields: a Scene, a single geometry, or an exception
LoadedMeshes ==
    {[t |-> "scene", geoms |-> gs] : gs \in SeqsUpTo(Geoms, MaxGeoms)}
        \cup {[t |-> "mesh", geoms |-> <<g>>] : g \in Geoms}
        \cup {[t |-> "error", geoms |-> <<>>]}

RECURSIVE SumVertices(_)
SumVertices(gs) ==
    IF gs = <<>> THEN 0
    ELSE (IF Head(gs).hasV THEN Head(gs).nv ELSE 0) + SumVertices(Tail(gs))

RECURSIVE SumFaces(_)
SumFaces(gs) ==
    IF gs = <<>> THEN 0
    ELSE (IF Head(gs).hasF THEN Head(gs).nf ELSE 0) + SumFaces(Tail(gs))

\* variant: a failed read is reported with the sentinel -1
StatsWithSentinel(mesh) ==
    CASE mesh.t = "scene" -> <<SumVertices(mesh.geoms), SumFaces(mesh.geoms)>>
      [] mesh.t = "mesh" /\ mesh.geoms[1].hasV ->
            <<mesh.geoms[1].nv,
              IF mesh.geoms[1].hasF THEN mesh.geoms[1].nf ELSE 0>>
      [] mesh.t = "mesh" -> <<0, 0>>
      [] OTHER -> <<-1, -1>>

_get_mesh_stats(mesh) ==
    CASE mesh.t = "scene" -> <<SumVertices(mesh.geoms), SumFaces(mesh.geoms)>>
      [] mesh.t = "mesh" /\ mesh.geoms[1].hasV ->
            <<mesh.geoms[1].nv,
              IF mesh.geoms[1].hasF THEN mesh.geoms[1].nf ELSE 0>>
      [] mesh.t = "mesh" -> <<0, 0>>
      [] OTHER -> <<0, 0>>

-----------------------------------------------------------------------------
(* SAM3DService.convert_2d_to_3d *)

\* detection_threshold, in hundredths
PRIMARY_THRESHOLD == 15

RELAXED_THRESHOLD == 5

Prompts ==
    {"object", "chair", ""}

Seeds ==
    {42, 7}

UploadUrls ==
    {"https://fal.media/in_1.png", "https://fal.media/in_2.png"}

\* a prompt argument: a str or None
PromptStr(s) ==
    [none |-> FALSE, s |-> s]

PromptNone ==
    [none |-> TRUE, s |-> ""]

NotReturned ==
    [returned |-> FALSE, success |-> FALSE, error |-> <<>>,
     vertices_count |-> 0, faces_count |-> 0]

Failure(error) ==
    [returned |-> TRUE, success |-> FALSE, error |-> error,
     vertices_count |-> 0, faces_count |-> 0]

Success(counts) ==
    [returned |-> TRUE, success |-> TRUE, error |-> <<>>,
     vertices_count |-> counts[1], faces_count |-> counts[2]]

\* variant: the segmentation failure reuses the text of the missing-GLB one
SegmentationFailureAsNoGlb ==
    Failure(ERR_NO_GLB)

\* lines 82-85: the dict returned when both submissions found no subject
SegmentationFailure ==
    Failure(ERR_NO_OBJECTS)

\* the two except clauses of convert_2d_to_3d
HandleException(e) ==
    IF e.cls = "ImportError"
    THEN Failure(ERR_NO_FAL_CLIENT)
    ELSE Failure(e.msg)

\* one remote or file operation of a call: its outcome, the exception it
\* raised (NoExc when none) and the URL it was given or returned
Event(op, out, exc, url) ==
    [op |-> op, out |-> out, exc |-> exc, url |-> url]

\* the arguments dict built by _call_fal_api
Arguments(url, prompt, seed, detection_threshold) ==
    [image_url |-> url, seed |-> seed, export_textured_glb |-> TRUE,
     detection_threshold |-> detection_threshold,
     hasPrompt |-> (~prompt.none /\ prompt.s # ""),
     prompt |-> IF ~prompt.none /\ prompt.s # "" THEN prompt.s ELSE ""]

\* what fal_client.subscribe does: returns a payload or raises
JobOutcomes ==
    {[exc |-> NoExc, value |-> p] : p \in Payloads}
        \cup {[exc |-> e, value |-> NonePayload] : e \in RemoteExceptions}

\* _call_fal_api around one outcome of subscribe: the value it returns, or
\* the exception it re-raises
_call_fal_api(outcome) ==
    IF outcome.exc = NoExc
    THEN outcome
    ELSE IF IsSegmentationError(outcome.exc)
         THEN [exc |-> NoExc, value |-> NonePayload]
         ELSE [exc |-> outcome.exc, value |-> NonePayload]

\* how one subscribe ended: the type of the value returned, or "raised"
OutcomeKind(outcome) ==
    IF outcome.exc = NoExc THEN outcome.value.t ELSE "raised"

ConvertCall ==
    /\ cpc = "idle"
    /\ rpc = "idle"
    /\ renderer # "raised"
    /\ \E p \in Prompts, s \in Seeds :
          cargs' = [prompt |-> PromptStr(p), seed |-> s]
    /\ cpc' = "check_key"
    /\ UNCHANGED <<fal_key, renderer, probes, hvars,
                   image_url, result, resultFrom, glb_url,
                   ctrace, subs, meshFile, cret, rvars>>

\* variant: the credential is not looked at
CheckKeySkipped ==
    /\ cpc = "check_key"
    /\ cpc' = "import"
    /\ UNCHANGED <<fal_key, renderer, probes, hvars,
                   cargs, image_url, result, resultFrom,
                   glb_url, ctrace, subs, meshFile, cret, rvars>>

\* lines 54-58
CheckKey ==
    /\ cpc = "check_key"
    /\ IF fal_key = ""
       THEN /\ cret' = Failure(ERR_NO_KEY)
            /\ cpc' = "done"
       ELSE /\ cpc' = "import"
            /\ UNCHANGED cret
    /\ UNCHANGED <<fal_key, renderer, probes, hvars,
                   cargs, image_url, result, resultFrom,
                   glb_url, ctrace, subs, meshFile, rvars>>

\* line 61
ImportFalClient ==
    /\ cpc = "import"
    /\ \E e \in {NoExc, Exc("ImportError", MSG_NO_MODULE)} :
          IF e = NoExc
          THEN /\ cpc' = "upload"
               /\ UNCHANGED cret
          ELSE /\ cret' = HandleException(e)
               /\ cpc' = "done"
    /\ UNCHANGED <<fal_key, renderer, probes, hvars,
                   cargs, image_url, result, resultFrom,
                   glb_url, ctrace, subs, meshFile, rvars>>

\* variant: a failed upload is tried once more
UploadRetried ==
    /\ cpc = "upload"
    /\ \/ \E u \in UploadUrls :
             /\ image_url' = u
             /\ ctrace' = Append(ctrace, Event("upload", "ok", NoExc, u))
             /\ cpc' = "submit"
             /\ UNCHANGED cret
       \/ \E e \in RemoteExceptions :
             /\ ctrace' = Append(ctrace, Event("upload", "raised", e, ""))
             /\ IF Len(ctrace) = 0
                THEN /\ cpc' = "upload"
                     /\ UNCHANGED cret
                ELSE /\ cret' = HandleException(e)
                     /\ cpc' = "done"
             /\ UNCHANGED image_url
    /\ UNCHANGED <<fal_key, renderer, probes, hvars,
                   cargs, result, resultFrom, glb_url,
                   subs, meshFile, rvars>>

\* line 66
Upload ==
    /\ cpc = "upload"
    /\ \/ \E u \in UploadUrls :
             /\ image_url' = u
             /\ ctrace' = Append(ctrace, Event("upload", "ok", NoExc, u))
             /\ cpc' = "submit"
             /\ UNCHANGED cret
       \/ \E e \in RemoteExceptions :
             /\ ctrace' = Append(ctrace, Event("upload", "raised", e, ""))
             /\ cret' = HandleException(e)
             /\ cpc' = "done"
             /\ UNCHANGED image_url
    /\ UNCHANGED <<fal_key, renderer, probes, hvars,
                   cargs, result, resultFrom, glb_url,
                   subs, meshFile, rvars>>

\* lines 70-75: the primary submission and the test that follows it
Submit ==
    /\ cpc = "submit"
    /\ \E o \in JobOutcomes :
          LET r == _call_fal_api(o)
          IN  /\ subs' = Append(subs, Arguments(image_url, cargs.prompt,
                                   cargs.seed, PRIMARY_THRESHOLD))
              /\ ctrace' = Append(ctrace, Event("submit", OutcomeKind(o),
                                                 o.exc, image_url))
              /\ IF r.exc # NoExc
                 THEN /\ cret' = HandleException(r.exc)
                      /\ cpc' = "done"
                      /\ UNCHANGED <<result, resultFrom>>
                 ELSE /\ result' = r.value
                      /\ resultFrom' = 1
                      /\ cpc' = IF r.value.t = "none" THEN "retry"
                                ELSE "extract"
                      /\ UNCHANGED cret
    /\ UNCHANGED <<fal_key, renderer, probes, hvars,
                   cargs, image_url, glb_url, meshFile,
                   rvars>>

\* variant: the relaxed submission is issued and its return value dropped
RetryDiscardsResult ==
    /\ cpc = "retry"
    /\ \E o \in JobOutcomes :
          LET r == _call_fal_api(o)
          IN  /\ subs' = Append(subs, Arguments(image_url, PromptNone,
                                   cargs.seed, RELAXED_THRESHOLD))
              /\ ctrace' = Append(ctrace, Event("submit", OutcomeKind(o),
                                                 o.exc, image_url))
              /\ IF r.exc # NoExc
                 THEN cret' = HandleException(r.exc)
                 ELSE cret' = SegmentationFailure
              /\ cpc' = "done"
              /\ UNCHANGED <<result, resultFrom>>
    /\ UNCHANGED <<fal_key, renderer, probes, hvars,
                   cargs, image_url, glb_url, meshFile,
                   rvars>>

\* variant: the relaxed submission carries the caller's prompt again
RetryKeepsPrompt ==
    /\ cpc = "retry"
    /\ \E o \in JobOutcomes :
          LET r == _call_fal_api(o)
          IN  /\ subs' = Append(subs, Arguments(image_url, cargs.prompt,
                                   cargs.seed, RELAXED_THRESHOLD))
              /\ ctrace' = Append(ctrace, Event("submit", OutcomeKind(o),
                                                 o.exc, image_url))
              /\ IF r.exc # NoExc
                 THEN /\ cret' = HandleException(r.exc)
                      /\ cpc' = "done"
                      /\ UNCHANGED <<result, resultFrom>>
                 ELSE /\ result' = r.value
                      /\ resultFrom' = 2
                      /\ IF r.value.t = "none"
                         THEN /\ cret' = SegmentationFailure
                              /\ cpc' = "done"
                         ELSE /\ cpc' = "extract"
                              /\ UNCHANGED cret
    /\ UNCHANGED <<fal_key, renderer, probes, hvars,
                   cargs, image_url, glb_url, meshFile,
                   rvars>>

\* variant: the relaxed submission is repeated for as long as no subject is
\* found
RetryUntilSegmented ==
    /\ cpc = "retry"
    /\ \E o \in JobOutcomes :
          LET r == _call_fal_api(o)
          IN  /\ subs' = Append(subs, Arguments(image_url, PromptNone,
                                   cargs.seed, RELAXED_THRESHOLD))
              /\ ctrace' = Append(ctrace, Event("submit", OutcomeKind(o),
                                                 o.exc, image_url))
              /\ IF r.exc # NoExc
                 THEN /\ cret' = HandleException(r.exc)
                      /\ cpc' = "done"
                      /\ UNCHANGED <<result, resultFrom>>
                 ELSE /\ result' = r.value
                      /\ resultFrom' = 2
                      /\ IF r.value.t = "none"
                         THEN /\ cpc' = "retry"
                              /\ UNCHANGED cret
                         ELSE /\ cpc' = "extract"
                              /\ UNCHANGED cret
    /\ UNCHANGED <<fal_key, renderer, probes, hvars,
                   cargs, image_url, glb_url, meshFile,
                   rvars>>

\* lines 76-85: the relaxed submission and the test that follows it
Retry ==
    /\ cpc = "retry"
    /\ \E o \in JobOutcomes :
          LET r == _call_fal_api(o)
          IN  /\ subs' = Append(subs, Arguments(image_url, PromptNone,
                                   cargs.seed, RELAXED_THRESHOLD))
              /\ ctrace' = Append(ctrace, Event("submit", OutcomeKind(o),
                                                 o.exc, image_url))
              /\ IF r.exc # NoExc
                 THEN /\ cret' = HandleException(r.exc)
                      /\ cpc' = "done"
                      /\ UNCHANGED <<result, resultFrom>>
                 ELSE /\ result' = r.value
                      /\ resultFrom' = 2
                      /\ IF r.value.t = "none"
                         THEN /\ cret' = SegmentationFailure
                              /\ cpc' = "done"
                         ELSE /\ cpc' = "extract"
                              /\ UNCHANGED cret
    /\ UNCHANGED <<fal_key, renderer, probes, hvars,
                   cargs, image_url, glb_url, meshFile,
                   rvars>>

\* variant: the download is started although no mesh URL was found
ExtractDownloadsWithoutUrl ==
    /\ cpc = "extract"
    /\ LET x == IF result.t = "other"
                THEN Raised(Exc("Exception", MSG_NO_KEYS))
                ELSE _extract_glb_url(result)
       IN  IF x.exc # NoExc
           THEN /\ cret' = HandleException(x.exc)
                /\ cpc' = "done"
                /\ UNCHANGED glb_url
           ELSE IF x.none \/ x.s = ""
                THEN /\ glb_url' = ""
                     /\ cpc' = "download"
                     /\ UNCHANGED cret
                ELSE /\ glb_url' = x.s
                     /\ cpc' = "download"
                     /\ UNCHANGED cret
    /\ UNCHANGED <<fal_key, renderer, probes, hvars,
                   cargs, image_url, result, resultFrom,
                   ctrace, subs, meshFile, rvars>>

\* lines 87-95
Extract ==
    /\ cpc = "extract"
    /\ LET x == IF result.t = "other"
                THEN Raised(Exc("Exception", MSG_NO_KEYS))
                ELSE _extract_glb_url(result)
       IN  IF x.exc # NoExc
           THEN /\ cret' = HandleException(x.exc)
                /\ cpc' = "done"
                /\ UNCHANGED glb_url
           ELSE IF x.none \/ x.s = ""
                THEN /\ cret' = Failure(ERR_NO_GLB)
                     /\ cpc' = "done"
                     /\ UNCHANGED glb_url
                ELSE /\ glb_url' = x.s
                     /\ cpc' = "download"
                     /\ UNCHANGED cret
    /\ UNCHANGED <<fal_key, renderer, probes, hvars,
                   cargs, image_url, result, resultFrom,
                   ctrace, subs, meshFile, rvars>>

\* the stages of lines 98-103, and the exception each raises when it fails
DownloadStages ==
    {"get", "raise_for_status", "mkdir", "open", "write", "done"}

DownloadException(stage, url) ==
    CASE stage = "get" /\ url \notin UrlStrings -> Exc("Exception", MSG_BAD_URL)
      [] stage = "get" -> Exc("Exception", MSG_TIMEOUT)
      [] stage = "raise_for_status" -> Exc("Exception", MSG_HTTP_STATUS)
      [] OTHER -> Exc("Exception", MSG_OS_ERROR)

\* variant: the response body is written before its status is checked
DownloadWritesBeforeStatusCheck ==
    /\ cpc = "download"
    /\ \E stage \in DownloadStages :
          /\ glb_url \notin UrlStrings => stage = "get"
          /\ ctrace' =
                ctrace
                  \o <<IF stage \in {"get", "raise_for_status"}
                       THEN Event("download", "raised",
                                  DownloadException(stage, glb_url), glb_url)
                       ELSE Event("download", "ok", NoExc, glb_url)>>
                  \o (CASE stage \in {"mkdir", "open"} ->
                               <<Event("open", "raised",
                                       DownloadException(stage, glb_url), "")>>
                         [] stage = "write" ->
                               <<Event("open", "ok", NoExc, ""),
                                 Event("write", "raised",
                                       DownloadException(stage, glb_url), "")>>
                         [] stage = "done" ->
                               <<Event("open", "ok", NoExc, ""),
                                 Event("write", "ok", NoExc, "")>>
                         [] stage = "raise_for_status" ->
                               <<Event("open", "ok", NoExc, ""),
                                 Event("write", "ok", NoExc, "")>>
                         [] OTHER -> <<>>)
          /\ meshFile' = CASE stage = "write" -> "partial"
                           [] stage \in {"raise_for_status", "done"} -> "complete"
                           [] OTHER           -> meshFile
          /\ IF stage = "done"
             THEN /\ cpc' = "stats"
                  /\ UNCHANGED cret
             ELSE /\ cret' = HandleException(DownloadException(stage, glb_url))
                  /\ cpc' = "done"
    /\ result' = NonePayload
    /\ UNCHANGED <<fal_key, renderer, probes, hvars,
                   cargs, image_url, resultFrom, glb_url,
                   subs, rvars>>

\* lines 98-105: stage is the first one that fails, "done" when none does
Download ==
    /\ cpc = "download"
    /\ \E stage \in DownloadStages :
          /\ glb_url \notin UrlStrings => stage = "get"
          /\ ctrace' =
                ctrace
                  \o <<IF stage \in {"get", "raise_for_status"}
                       THEN Event("download", "raised",
                                  DownloadException(stage, glb_url), glb_url)
                       ELSE Event("download", "ok", NoExc, glb_url)>>
                  \o (CASE stage \in {"mkdir", "open"} ->
                               <<Event("open", "raised",
                                       DownloadException(stage, glb_url), "")>>
                         [] stage = "write" ->
                               <<Event("open", "ok", NoExc, ""),
                                 Event("write", "raised",
                                       DownloadException(stage, glb_url), "")>>
                         [] stage = "done" ->
                               <<Event("open", "ok", NoExc, ""),
                                 Event("write", "ok", NoExc, "")>>
                         [] OTHER -> <<>>)
          /\ meshFile' = CASE stage = "write" -> "partial"
                           [] stage = "done"  -> "complete"
                           [] OTHER           -> meshFile
          /\ IF stage = "done"
             THEN /\ cpc' = "stats"
                  /\ UNCHANGED cret
             ELSE /\ cret' = HandleException(DownloadException(stage, glb_url))
                  /\ cpc' = "done"
    /\ result' = NonePayload
    /\ UNCHANGED <<fal_key, renderer, probes, hvars,
                   cargs, image_url, resultFrom, glb_url,
                   subs, rvars>>

\* lines 108-115
Stats ==
    /\ cpc = "stats"
    /\ \E mesh \in LoadedMeshes :
          /\ ctrace' = Append(ctrace,
                               Event("stats", IF mesh.t = "error" THEN "raised"
                                              ELSE "ok", NoExc, ""))
          /\ cret' = Success(_get_mesh_stats(mesh))
    /\ cpc' = "done"
    /\ UNCHANGED <<fal_key, renderer, probes, hvars,
                   cargs, image_url, result, resultFrom,
                   glb_url, subs, meshFile, rvars>>

\* the call frame is gone once the dict has been handed to the caller
ConvertReturn ==
    /\ cpc = "done"
    /\ cpc' = "idle"
    /\ cargs' = [prompt |-> PromptStr("object"), seed |-> 42]
    /\ image_url' = ""
    /\ result' = NonePayload
    /\ resultFrom' = 0
    /\ glb_url' = ""
    /\ ctrace' = <<>>
    /\ subs' = <<>>
    /\ cret' = NotReturned
    /\ UNCHANGED <<fal_key, renderer, probes, hvars,
                   meshFile, rvars>>

-----------------------------------------------------------------------------
(* render_service._detect_renderer and RenderService *)

\* what `import pyrender` / `import matplotlib` can do at startup
ImportProbes ==
    {"ok", "ImportError", "error"}

\* the renderer name, or "raised" when an import raises something that is
\* not an ImportError
_detect_renderer(pyrenderProbe, matplotlibProbe) ==
    CASE pyrenderProbe = "ok" -> "pyrender"
      [] pyrenderProbe = "error" -> "raised"
      [] matplotlibProbe = "ok" -> "matplotlib"
      [] matplotlibProbe = "error" -> "raised"
      [] OTHER -> "mock"

\* the imports _detect_renderer attempts, with what each did; matplotlib is
\* imported only after `import pyrender` raised ImportError
Probed(pyrenderProbe, matplotlibProbe) ==
    [pyrender |-> pyrenderProbe,
     matplotlib |-> IF pyrenderProbe = "ImportError" THEN matplotlibProbe
                    ELSE "not_tried"]

MeshesOnDisk ==
    {"missing", "corrupt", "valid"}

Resolutions ==
    {"valid", "invalid"}

\* how a call of render_angle has ended: with a dict, or (raised) with an
\* exception that reaches its caller
RenderNotReturned ==
    [returned |-> FALSE, raised |-> FALSE, success |-> FALSE, error |-> <<>>]

RenderSuccess ==
    [returned |-> TRUE, raised |-> FALSE, success |-> TRUE, error |-> <<>>]

RenderFailure(e) ==
    [returned |-> TRUE, raised |-> FALSE, success |-> FALSE, error |-> e.msg]

RenderRaised(e) ==
    [returned |-> FALSE, raised |-> TRUE, success |-> FALSE, error |-> e.msg]

RenderCall ==
    /\ rpc = "idle"
    /\ cpc = "idle"
    /\ renderer # "raised"
    /\ \E m \in MeshesOnDisk, res \in Resolutions :
          rargs' = [mesh |-> m, resolution |-> res]
    /\ rpc' = "mkdir"
    /\ UNCHANGED <<fal_key, renderer, probes, hvars,
                   cvars, rexc, rtrace, renderDir,
                   renderFile, rret>>

\* line 68: mkdir(parents=True, exist_ok=True)
RenderMkdir ==
    /\ rpc = "mkdir"
    /\ \/ /\ renderDir' = TRUE
          /\ rtrace' = Append(rtrace, "mkdir_ok")
          /\ rpc' = "backend"
          /\ UNCHANGED rexc
       \/ /\ ~renderDir
          /\ rexc' = Exc("Exception", MSG_OS_ERROR)
          /\ rtrace' = Append(rtrace, "mkdir_failed")
          /\ rpc' = "fallback"
          /\ UNCHANGED renderDir
    /\ UNCHANGED <<fal_key, renderer, probes, hvars,
                   cvars, rargs, renderFile, rret>>

\* can the selected backend produce an image for these arguments
BackendCanRender(r, args) ==
    /\ args.resolution = "valid"
    /\ r \in {"pyrender", "matplotlib"} => args.mesh = "valid"

BackendException(r, args) ==
    CASE r \in {"pyrender", "matplotlib"} /\ args.mesh = "missing" ->
            Exc("Exception", MSG_NO_SUCH_FILE)
      [] r \in {"pyrender", "matplotlib"} /\ args.mesh = "corrupt" ->
            Exc("Exception", MSG_BAD_MESH)
      [] args.resolution = "invalid" -> Exc("Exception", MSG_BAD_SIZE)
      [] OTHER -> Exc("Exception", MSG_BACKEND)

\* variant: a backend exception is reported without trying the placeholder
RenderBackendNoFallback ==
    /\ rpc = "backend"
    /\ \/ /\ BackendCanRender(renderer, rargs)
          /\ rtrace' = Append(rtrace, "backend_ok")
          /\ rpc' = "save"
          /\ UNCHANGED <<rexc, rret>>
       \/ /\ rexc' = BackendException(renderer, rargs)
          /\ rtrace' = Append(rtrace, "backend_failed")
          /\ rret' = RenderFailure(BackendException(renderer, rargs))
          /\ rpc' = "done"
    /\ UNCHANGED <<fal_key, renderer, probes, hvars,
                   cvars, rargs, renderDir, renderFile>>

\* lines 70-75: the backend selected at startup renders, or raises
RenderBackend ==
    /\ rpc = "backend"
    /\ \/ /\ BackendCanRender(renderer, rargs)
          /\ rtrace' = Append(rtrace, "backend_ok")
          /\ rpc' = "save"
          /\ UNCHANGED rexc
       \/ /\ rexc' = BackendException(renderer, rargs)
          /\ rtrace' = Append(rtrace, "backend_failed")
          /\ rpc' = "fallback"
    /\ UNCHANGED <<fal_key, renderer, probes, hvars,
                   cvars, rargs, renderDir, renderFile,
                   rret>>

\* lines 77-79: image.save(output_path) and the success return
RenderSave ==
    /\ rpc = "save"
    /\ \/ /\ renderFile' = IF renderer = "mock" THEN "mock" ELSE "real"
          /\ rtrace' = Append(rtrace, "save_ok")
          /\ rret' = RenderSuccess
          /\ rpc' = "done"
          /\ UNCHANGED rexc
       \/ /\ renderFile' \in {renderFile, "partial"}
          /\ rexc' = Exc("Exception", MSG_OS_ERROR)
          /\ rtrace' = Append(rtrace, "save_failed")
          /\ rpc' = "fallback"
          /\ UNCHANGED rret
    /\ UNCHANGED <<fal_key, renderer, probes, hvars,
                   cvars, rargs, renderDir>>

\* variant: the placeholder is rendered outside any try block
RenderFallbackRaises ==
    /\ rpc = "fallback"
    /\ \/ /\ rargs.resolution = "valid"
          /\ rtrace' = Append(rtrace, "mock_ok")
          /\ rpc' = "fallback_save"
          /\ UNCHANGED rret
       \/ /\ rtrace' = Append(rtrace, "mock_failed")
          /\ rret' = RenderRaised(Exc("Exception", MSG_BAD_SIZE))
          /\ rpc' = "done"
    /\ UNCHANGED <<fal_key, renderer, probes, hvars,
                   cvars, rargs, rexc, renderDir,
                   renderFile>>

\* lines 84-85 and 89-90: the placeholder is rendered, or the failure of the
\* first attempt is returned
RenderFallback ==
    /\ rpc = "fallback"
    /\ \/ /\ rargs.resolution = "valid"
          /\ rtrace' = Append(rtrace, "mock_ok")
          /\ rpc' = "fallback_save"
          /\ UNCHANGED rret
       \/ /\ rtrace' = Append(rtrace, "mock_failed")
          /\ rret' = RenderFailure(rexc)
          /\ rpc' = "done"
    /\ UNCHANGED <<fal_key, renderer, probes, hvars,
                   cvars, rargs, rexc, renderDir,
                   renderFile>>

\* variant: a saved placeholder makes the service switch to the placeholder
\* backend
RenderFallbackSaveDowngrades ==
    /\ rpc = "fallback_save"
    /\ \/ /\ renderDir
          /\ renderFile' = "mock"
          /\ rtrace' = Append(rtrace, "mock_save_ok")
          /\ rret' = RenderSuccess
          /\ rpc' = "done"
          /\ renderer' = "mock"
       \/ /\ renderFile' \in IF renderDir THEN {renderFile, "partial"}
                             ELSE {renderFile}
          /\ rtrace' = Append(rtrace, "mock_save_failed")
          /\ rret' = RenderFailure(rexc)
          /\ rpc' = "done"
          /\ UNCHANGED renderer
    /\ UNCHANGED <<fal_key, probes, hvars, cvars, rargs, rexc, renderDir>>

\* lines 86-90: the placeholder is saved, or the failure of the first attempt
\* is returned
RenderFallbackSave ==
    /\ rpc = "fallback_save"
    /\ \/ /\ renderDir
          /\ renderFile' = "mock"
          /\ rtrace' = Append(rtrace, "mock_save_ok")
          /\ rret' = RenderSuccess
          /\ rpc' = "done"
       \/ /\ renderFile' \in IF renderDir THEN {renderFile, "partial"}
                             ELSE {renderFile}
          /\ rtrace' = Append(rtrace, "mock_save_failed")
          /\ rret' = RenderFailure(rexc)
          /\ rpc' = "done"
    /\ UNCHANGED <<fal_key, renderer, probes, hvars,
                   cvars, rargs, rexc, renderDir>>

\* the call frame is gone once the dict has been handed to the caller
RenderReturn ==
    /\ rpc = "done"
    /\ rpc' = "idle"
    /\ rargs' = [mesh |-> "missing", resolution |-> "valid"]
    /\ rexc' = NoExc
    /\ rtrace' = <<>>
    /\ rret' = RenderNotReturned
    /\ UNCHANGED <<fal_key, renderer, probes, hvars,
                   cvars, renderDir, renderFile>>

-----------------------------------------------------------------------------
(* routers/stage_node.py: the requests, the storage directory and the
   event loop that runs the handlers *)

\* concurrent HTTP requests
Requests ==
    1 .. MaxRequests

\* readings of datetime.now(); the wall clock is not monotonic (it is set
\* back by time synchronisation and at the end of daylight saving time), so
\* two readings may be equal
Timestamps ==
    0 .. MaxClock

NodeIds ==
    {"n1"}

\* f"model_{request.node_id}_{timestamp}"
ModelId(node_id, timestamp) ==
    [node_id |-> node_id, timestamp |-> timestamp]

ModelIds ==
    {ModelId(n, t) : n \in NodeIds, t \in Timestamps}

NoModel ==
    ModelId("", 0)

\* request.pitch and request.yaw, in tenths of a degree
Cameras ==
    {[pitch |-> -5, yaw |-> 320], [pitch |-> 5, yaw |-> 320],
     [pitch |-> 127, yaw |-> 320], [pitch |-> 5, yaw |-> 3595]}

\* int(x) of a float given in tenths: truncation towards zero
int(x) ==
    IF x >= 0 THEN x \div 10 ELSE -((-x) \div 10)

\* variant: a render file named without the timestamp
RenderPathWithoutTimestamp(model_id, pitch, yaw, timestamp) ==
    [model_id |-> model_id, name |-> "render", p |-> int(pitch),
     y |-> int(yaw), timestamp |-> 0]

\* f"{request.model_id}_p{int(request.pitch)}_y{int(request.yaw)}_{timestamp}.png"
\* in storage/renders
RenderPath(model_id, pitch, yaw, timestamp) ==
    [model_id |-> model_id, name |-> "render", p |-> int(pitch),
     y |-> int(yaw), timestamp |-> timestamp]

\* f"{model_id}_preview.png" in storage/renders
PreviewPath(model_id) ==
    [model_id |-> model_id, name |-> "preview", p |-> 0, y |-> 0,
     timestamp |-> 0]

NoPath ==
    [model_id |-> NoModel, name |-> "", p |-> 0, y |-> 0, timestamp |-> 0]

\* a request that has not arrived
NewRequest ==
    [kind |-> "none", pc |-> "new", node_id |-> "", model_id |-> NoModel,
     pitch |-> 0, yaw |-> 0, timestamp |-> 0, path |-> NoPath,
     got |-> "none",
     invoked |-> FALSE, status |-> 0]

\* the positions at which a handler waits for a network operation that
\* was handed to a worker thread or to the asynchronous HTTP client
NetworkWaits ==
    {"uploading", "submitting", "retrying", "downloading"}

\* the positions at which a handler is inside render_angle
Rendering ==
    {"previewing", "rendering"}

\* what render_angle leaves behind: the backend's image, the placeholder,
\* or no file with a failure result
RenderOutcomes ==
    {"real", "mock", "failed"}

\* the handler of request r ends with an HTTP status; its locals are gone
Respond(r, status) ==
    reqs' = [reqs EXCEPT ![r].pc = "done", ![r].status = status,
                         ![r].got = "none", ![r].pitch = 0, ![r].yaw = 0]

\* a file written to storage/renders
Written(path, r, content) ==
    [path |-> path, by |-> r, content |-> content]

\* the state of the two services, which no route handler assigns
svars == <<fal_key, renderer, probes, cvars, rvars>>

\* a POST /convert arrives
ArriveConvert(r) ==
    /\ reqs[r].pc = "new"
    /\ \E n \in NodeIds :
          reqs' = [reqs EXCEPT ![r] = [NewRequest EXCEPT !.kind = "convert",
                                                         !.pc = "arrived",
                                                         !.node_id = n]]
    /\ UNCHANGED <<loop, models, renders, svars>>

\* a POST /render arrives
ArriveRender(r) ==
    /\ reqs[r].pc = "new"
    /\ \E m \in ModelIds, c \in Cameras :
          reqs' = [reqs EXCEPT ![r] = [NewRequest EXCEPT !.kind = "render",
                                                         !.pc = "arrived",
                                                         !.model_id = m,
                                                         !.pitch = c.pitch,
                                                         !.yaw = c.yaw]]
    /\ UNCHANGED <<loop, models, renders, svars>>

\* variant: fal_client.upload_file is called on the event-loop thread
ConvertStartUploadsInline(r) ==
    /\ reqs[r].kind = "convert"
    /\ reqs[r].pc = "arrived"
    /\ loop = 0
    /\ \/ \E t \in Timestamps :
             /\ reqs' = [reqs EXCEPT
                           ![r].model_id = ModelId(reqs[r].node_id, t),
                           ![r].pc = "uploading"]
             /\ loop' = r
       \/ /\ Respond(r, 500)
          /\ UNCHANGED loop
    /\ UNCHANGED <<models, renders, svars>>

\* stage_node.py lines 68-97 and sam3d_service.py lines 50-66: decode the
\* image, name the model, save the upload, check the key, and hand
\* fal_client.upload_file to a worker thread with asyncio.to_thread
ConvertStart(r) ==
    /\ reqs[r].kind = "convert"
    /\ reqs[r].pc = "arrived"
    /\ loop = 0
    /\ \/ \E t \in Timestamps :
             reqs' = [reqs EXCEPT ![r].model_id = ModelId(reqs[r].node_id, t),
                                  ![r].pc = "uploading"]
       \/ Respond(r, 500)
    /\ UNCHANGED <<loop, models, renders, svars>>

\* the worker thread finishes fal_client.upload_file
UploadDone(r) ==
    /\ reqs[r].pc = "uploading"
    /\ \E got \in {"ok", "raised"} :
          reqs' = [reqs EXCEPT ![r].pc = "uploaded", ![r].got = got]
    /\ UNCHANGED <<loop, models, renders, svars>>

\* sam3d_service.py lines 66-72 and 127-144: take the upload's outcome and
\* hand fal_client.subscribe to a worker thread
ConvertSubmit(r) ==
    /\ reqs[r].pc = "uploaded"
    /\ loop = 0
    /\ IF reqs[r].got = "raised"
       THEN Respond(r, 500)
       ELSE reqs' = [reqs EXCEPT ![r].pc = "submitting"]
    /\ UNCHANGED <<loop, models, renders, svars>>

\* the worker thread finishes fal_client.subscribe: a job response, no
\* subject found, or another exception
JobDone(r) ==
    /\ reqs[r].pc \in {"submitting", "retrying"}
    /\ \E got \in {"dict", "none", "raised"} :
          reqs' = [reqs EXCEPT ![r].pc = IF reqs[r].pc = "submitting"
                                         THEN "submitted" ELSE "retried",
                               ![r].got = got]
    /\ UNCHANGED <<loop, models, renders, svars>>

\* sam3d_service.py lines 72-99: retry once, or read the mesh URL and start
\* the download with the asynchronous HTTP client
ConvertAfterJob(r) ==
    /\ reqs[r].pc \in {"submitted", "retried"}
    /\ loop = 0
    /\ CASE reqs[r].got = "dict" ->
               \/ reqs' = [reqs EXCEPT ![r].pc = "downloading"]
               \/ Respond(r, 500)
         [] reqs[r].got = "none" /\ reqs[r].pc = "submitted" ->
               reqs' = [reqs EXCEPT ![r].pc = "retrying"]
         [] OTHER ->
               Respond(r, 500)
    /\ UNCHANGED <<loop, models, renders, svars>>

\* client.get finishes
DownloadDone(r) ==
    /\ reqs[r].pc = "downloading"
    /\ \E got \in {"ok", "raised"} :
          reqs' = [reqs EXCEPT ![r].pc = "downloaded", ![r].got = got]
    /\ UNCHANGED <<loop, models, renders, svars>>

\* sam3d_service.py lines 99-115 and stage_node.py lines 99-107: write the
\* mesh file, read its statistics and enter render_angle for the preview,
\* all on the event-loop thread
ConvertPersist(r) ==
    /\ reqs[r].pc = "downloaded"
    /\ loop = 0
    /\ IF reqs[r].got = "raised"
       THEN /\ Respond(r, 500)
            /\ UNCHANGED <<loop, models>>
       ELSE \/ /\ models' = [models EXCEPT ![reqs[r].model_id] = "complete"]
               /\ reqs' = [reqs EXCEPT ![r].pc = "previewing"]
               /\ loop' = r
            \/ /\ models' = [models EXCEPT ![reqs[r].model_id] = "partial"]
               /\ Respond(r, 500)
               /\ UNCHANGED loop
            \/ /\ Respond(r, 500)
               /\ UNCHANGED <<loop, models>>
    /\ UNCHANGED <<renders, svars>>

\* stage_node.py lines 107-127: render_angle returns and the response is
\* built; preview_result is not read
ConvertPreview(r) ==
    /\ reqs[r].pc = "previewing"
    /\ loop = r
    /\ \E out \in RenderOutcomes :
          renders' = IF out = "failed" THEN renders
                     ELSE renders \cup
                          {Written(PreviewPath(reqs[r].model_id), r, out)}
    /\ reqs' = [reqs EXCEPT ![r].pc = "done",
                            ![r].status = 200,
                            ![r].got = "none",
                            ![r].invoked = TRUE,
                            ![r].path = PreviewPath(reqs[r].model_id)]
    /\ loop' = 0
    /\ UNCHANGED <<models, svars>>

\* the handler naming the render file and entering render_angle
EnterRender(r) ==
    \E t \in Timestamps :
       /\ reqs' = [reqs EXCEPT
                     ![r].timestamp = t,
                     ![r].path = RenderPath(reqs[r].model_id, reqs[r].pitch,
                                            reqs[r].yaw, t),
                     ![r].pc = "rendering"]
       /\ loop' = r

\* a handler that does not look for the mesh file
RenderStartUnchecked(r) ==
    /\ reqs[r].kind = "render"
    /\ reqs[r].pc = "arrived"
    /\ loop = 0
    /\ \/ EnterRender(r)
       \/ /\ Respond(r, 500)
          /\ UNCHANGED loop
    /\ UNCHANGED <<models, renders, svars>>

\* stage_node.py lines 148-175: look for the mesh file, name the render
\* file and enter render_angle; a resolution without "width" or "height"
\* raises KeyError while the arguments are evaluated
RenderStart(r) ==
    /\ reqs[r].kind = "render"
    /\ reqs[r].pc = "arrived"
    /\ loop = 0
    /\ IF models[reqs[r].model_id] = "absent"
       THEN /\ Respond(r, 404)
            /\ UNCHANGED loop
       ELSE \/ EnterRender(r)
            \/ /\ Respond(r, 500)
               /\ UNCHANGED loop
    /\ UNCHANGED <<models, renders, svars>>

\* stage_node.py lines 168-195: render_angle returns and its result is
\* turned into the response
RenderFinish(r) ==
    /\ reqs[r].pc = "rendering"
    /\ loop = r
    /\ \E out \in RenderOutcomes :
          /\ renders' = IF out = "failed" THEN renders
                        ELSE renders \cup {Written(reqs[r].path, r, out)}
          /\ reqs' = [reqs EXCEPT ![r].pc = "done",
                                  ![r].status = IF out = "failed" THEN 500
                                                ELSE 200,
                                  ![r].invoked = TRUE]
    /\ loop' = 0
    /\ UNCHANGED <<models, svars>>

-----------------------------------------------------------------------------
(* The services after construction, and their calls *)

\* SAM3DService.__init__, and no call in progress
InitSAM3D ==
    /\ fal_key \in {"", "fal-key-1"}
    /\ cpc = "idle"
    /\ cargs = [prompt |-> PromptStr("object"), seed |-> 42]
    /\ image_url = ""
    /\ result = NonePayload
    /\ resultFrom = 0
    /\ glb_url = ""
    /\ ctrace = <<>>
    /\ subs = <<>>
    /\ meshFile = "absent"
    /\ cret = NotReturned

\* RenderService.__init__, and no call in progress
InitRender ==
    /\ \E p \in ImportProbes, m \in ImportProbes :
          /\ probes = Probed(p, m)
          /\ renderer = _detect_renderer(p, m)
    /\ rpc = "idle"
    /\ rargs = [mesh |-> "missing", resolution |-> "valid"]
    /\ rexc = NoExc
    /\ rtrace = <<>>
    /\ renderDir \in BOOLEAN
    /\ renderFile = "absent"
    /\ rret = RenderNotReturned

\* main.py lines 30-40 and stage_node.py lines 19-25: no request has
\* arrived, and storage/models holds the mesh of an earlier conversion
InitServer ==
    /\ reqs = [r \in Requests |-> NewRequest]
    /\ loop = 0
    /\ models = [m \in ModelIds |-> IF m = ModelId("n1", 0) THEN "complete"
                                    ELSE "absent"]
    /\ renders = {}

Init ==
    InitSAM3D /\ InitRender /\ InitServer

NextConvert ==
    \/ ConvertCall
    \/ CheckKey
    \/ ImportFalClient
    \/ Upload
    \/ Submit
    \/ Retry
    \/ Extract
    \/ Download
    \/ Stats
    \/ ConvertReturn

NextRender ==
    \/ RenderCall
    \/ RenderMkdir
    \/ RenderBackend
    \/ RenderSave
    \/ RenderFallback
    \/ RenderFallbackSave
    \/ RenderReturn

Next ==
    NextConvert \/ NextRender

\* both services, one call at a time
Spec ==
    Init /\ [][Next]_vars

\* the calls of convert_2d_to_3d alone; no step of it reads the render
\* service's state, which is held at one of its start values
InitConvertOnly ==
    /\ Init
    /\ renderer = "mock"
    /\ renderDir = TRUE

SpecConvert ==
    InitConvertOnly /\ [][NextConvert]_vars

\* the steps of a call in progress; the code is sequential, so at most one
\* of them is enabled at a time
ConvertStep ==
    \/ CheckKey
    \/ ImportFalClient
    \/ Upload
    \/ Submit
    \/ Retry
    \/ Extract
    \/ Download
    \/ Stats

\* the calls of convert_2d_to_3d when every step that is started ends: the
\* local steps run on, and each remote step (upload, submission, download
\* under its timeout) completes or raises
SpecConvertFair ==
    SpecConvert /\ WF_vars(ConvertStep)

\* the calls of render_angle alone; no step of it reads the conversion
\* service's state
InitRenderOnly ==
    /\ Init
    /\ fal_key = "fal-key-1"

SpecRender ==
    InitRenderOnly /\ [][NextRender]_vars

NextServer ==
    \E r \in Requests :
       \/ ArriveConvert(r)
       \/ ArriveRender(r)
       \/ ConvertStart(r)
       \/ UploadDone(r)
       \/ ConvertSubmit(r)
       \/ JobDone(r)
       \/ ConvertAfterJob(r)
       \/ DownloadDone(r)
       \/ ConvertPersist(r)
       \/ ConvertPreview(r)
       \/ RenderStart(r)
       \/ RenderFinish(r)

\* the two routes serving concurrent requests on one event loop; the
\* services' own state is held at one of its start values
InitServerOnly ==
    /\ Init
    /\ fal_key = "fal-key-1"
    /\ renderer = "mock"
    /\ renderDir = TRUE

SpecServer ==
    InitServerOnly /\ [][NextServer]_vars

-----------------------------------------------------------------------------
(* Reading the trace of the current convert_2d_to_3d call *)

Ops(trace, op) ==
    SelectSeq(trace, LAMBDA e : e.op = op)

Submits ==
    Ops(ctrace, "submit")

Uploads ==
    Ops(ctrace, "upload")

Downloads ==
    Ops(ctrace, "download")

Writes ==
    Ops(ctrace, "write")

\* the exception messages that report a failed auto-segmentation
SegmentationMessages ==
    {MSG_NO_MASKS, MSG_NO_MASKS_UPPER, MSG_AUTO_SEG}

\* the n-th submission raised a segmentation error
SegmentationFailed(n) ==
    /\ Len(Submits) >= n
    /\ Submits[n].out = "raised"
    /\ Submits[n].exc.msg \in SegmentationMessages

\* the n-th submission raised another error
OtherwiseFailed(n) ==
    /\ Len(Submits) >= n
    /\ Submits[n].out = "raised"
    /\ Submits[n].exc.msg \notin SegmentationMessages

\* the n-th submission returned a job response
Responded(n) ==
    /\ Len(Submits) >= n
    /\ Submits[n].out = "dict"

\* the mesh bytes were downloaded and written to output_path
Persisted ==
    \E i \in DOMAIN ctrace : ctrace[i].op = "write" /\ ctrace[i].out = "ok"

\* the statistics read raised
StatsFailed ==
    \E i \in DOMAIN ctrace : ctrace[i].op = "stats" /\ ctrace[i].out = "raised"

\* the upload raised
UploadFailed ==
    \E i \in DOMAIN ctrace : ctrace[i].op = "upload" /\ ctrace[i].out = "raised"

\* the ways a call fails other than by finding no subject
ConfigurationFailed ==
    fal_key = ""

TransportFailed ==
    \E i \in DOMAIN ctrace :
        /\ ctrace[i].op \in {"upload", "download", "open", "write"}
        /\ ctrace[i].out = "raised"

ResponseShapeFailed ==
    /\ Submits # <<>>
    /\ Submits[Len(Submits)].out = "dict"
    /\ Downloads = <<>>

\* a mesh reference: a non-empty URL string, or an object with a non-empty
\* URL field
UsableRef(r) ==
    \/ r.t = "str" /\ r.s # ""
    \/ r.t = "dict" /\ r.hasUrl /\ r.s # ""

HasPerObjectRef(p) ==
    /\ p.t = "dict"
    /\ p.individual_glbs.t = "list"
    /\ Len(p.individual_glbs.items) >= 1
    /\ UsableRef(p.individual_glbs.items[1])

HasSceneRef(p) ==
    /\ p.t = "dict"
    /\ UsableRef(p.model_glb)

-----------------------------------------------------------------------------
(* C1: when the first submission fails with a recognised segmentation       *)
(* error and the second one returns a job response, exactly two submissions *)
(* are issued, the result in use is the second response, the URL that is    *)
(* downloaded is the one extracted from it, and the call returns success    *)
(* exactly when that mesh was downloaded and persisted.                     *)
C1_RetryResultUsed ==
    /\ (cpc = "done" /\ SegmentationFailed(1) /\ Responded(2)) =>
          /\ Len(Submits) = 2
          /\ resultFrom = 2
          /\ cret.returned
          /\ cret.success <=> Persisted
          /\ Len(Downloads) <= 1
          /\ \A i \in DOMAIN Downloads : Downloads[i].url = glb_url
    /\ (cpc = "download" /\ SegmentationFailed(1)) =>
          /\ resultFrom = 2
          /\ Responded(2)
          /\ _extract_glb_url(result) = Returned(glb_url)

C1_Witness ==
    /\ cpc = "done"
    /\ SegmentationFailed(1)
    /\ Responded(2)
    /\ cret.success
    /\ Len(Downloads) = 1

-----------------------------------------------------------------------------
(* C2: when the first submission fails with an error that is not a          *)
(* segmentation error, exactly one submission is issued, nothing is         *)
(* downloaded or written, and the call returns a failure carrying that      *)
(* error's message.                                                         *)
C2_OtherErrorNotRetried ==
    OtherwiseFailed(1) =>
        /\ cpc = "done"
        /\ Len(Submits) = 1
        /\ Downloads = <<>>
        /\ Writes = <<>>
        /\ cret.returned
        /\ ~cret.success
        /\ Submits[1].exc.cls = "Exception" => cret.error = Submits[1].exc.msg

C2_Witness ==
    /\ cpc = "done"
    /\ OtherwiseFailed(1)
    /\ Submits[1].exc.msg = MSG_AUTO_SEG_LOWER
    /\ cret.error = MSG_AUTO_SEG_LOWER

-----------------------------------------------------------------------------
(* Reading the trace of the current render_angle call *)

Did(step) ==
    \E i \in DOMAIN rtrace : rtrace[i] = step

\* the try block of render_angle raised
FirstAttemptFailed ==
    Did("mkdir_failed") \/ Did("backend_failed") \/ Did("save_failed")

PlaceholderAttempted ==
    Did("mock_ok") \/ Did("mock_failed")

PlaceholderFailed ==
    Did("mock_failed") \/ Did("mock_save_failed")

-----------------------------------------------------------------------------
(* C3: for every selected renderer, when the backend fails and the          *)
(* placeholder is rendered and saved, render_angle returns success and the  *)
(* file at output_path holds the placeholder image; a failure is returned   *)
(* only when the placeholder attempt itself failed.                         *)
C3_PlaceholderOnBackendFailure ==
    rpc = "done" =>
        /\ (Did("backend_failed") /\ Did("mock_ok") /\ Did("mock_save_ok")) =>
              /\ rret.returned
              /\ rret.success
              /\ renderFile = "mock"
        /\ ~rret.success => PlaceholderFailed

C3_Witness ==
    /\ rpc = "done"
    /\ renderer = "pyrender"
    /\ rargs.mesh = "corrupt"
    /\ Did("backend_failed")
    /\ rret.success
    /\ renderFile = "mock"

-----------------------------------------------------------------------------
(* C4: render_angle never raises to its caller: every call that has         *)
(* started can take a step until it ends, it ends within five steps by      *)
(* returning a dict, and an exception of the first attempt is followed by   *)
(* a placeholder attempt before a failure is returned.                      *)
C4_RenderNeverRaises ==
    /\ rpc \notin {"idle", "done"} => ENABLED NextRender
    /\ Len(rtrace) <= 5
    /\ ~rret.raised
    /\ rpc = "done" =>
          /\ rret.returned
          /\ FirstAttemptFailed => PlaceholderAttempted
          /\ ~rret.success => (FirstAttemptFailed /\ PlaceholderAttempted)

C4_Witness ==
    /\ rpc = "done"
    /\ Did("mkdir_failed")
    /\ Did("mock_ok")
    /\ Did("mock_save_failed")
    /\ rret.returned
    /\ ~rret.success

-----------------------------------------------------------------------------
(* C5: with no credential configured, a call of convert_2d_to_3d goes from  *)
(* the credential test straight to its return: it returns the configuration *)
(* failure, issues no upload, submission or download, and writes no mesh    *)
(* file.                                                                    *)
C5_NoKeyNoNetwork ==
    fal_key = "" =>
        /\ cpc \in {"idle", "check_key", "done"}
        /\ ctrace = <<>>
        /\ subs = <<>>
        /\ meshFile = "absent"
        /\ cpc = "done" => cret = Failure(ERR_NO_KEY)

C5_Witness ==
    /\ fal_key = ""
    /\ cpc = "done"
    /\ cret = Failure(ERR_NO_KEY)

-----------------------------------------------------------------------------
(* C6: when both submissions fail with a segmentation error, the call       *)
(* returns, after exactly two submissions and no download, the failure      *)
(* whose text tells that no object was detected; a call that fails for a    *)
(* missing credential, an unusable response or a failed upload or download  *)
(* never returns that text.                                                 *)
C6_SegmentationFailureDistinct ==
    cpc = "done" =>
        /\ (SegmentationFailed(1) /\ SegmentationFailed(2)) =>
              /\ Len(Submits) = 2
              /\ Downloads = <<>>
              /\ cret.returned
              /\ ~cret.success
              /\ cret.error = ERR_NO_OBJECTS
        /\ (ConfigurationFailed \/ TransportFailed \/ ResponseShapeFailed) =>
              /\ ~cret.success
              /\ cret.error # ERR_NO_OBJECTS

C6_Witness ==
    /\ cpc = "done"
    /\ SegmentationFailed(1)
    /\ SegmentationFailed(2)
    /\ cret.error = ERR_NO_OBJECTS

-----------------------------------------------------------------------------
(* C7: for a job response whose first per-object entry and whose combined   *)
(* field are both mesh references (a non-empty URL string, or an object     *)
(* with a non-empty URL field), _extract_glb_url returns the URL of the     *)
(* first per-object entry, and that is the URL convert_2d_to_3d downloads.  *)
C7_PerObjectPreferred ==
    (HasPerObjectRef(result) /\ HasSceneRef(result)) =>
        /\ _extract_glb_url(result) =
              Returned(result.individual_glbs.items[1].s)
        /\ cpc \in {"extract", "download"}
        /\ cpc = "download" => glb_url = result.individual_glbs.items[1].s

C7_Witness ==
    /\ cpc = "download"
    /\ HasPerObjectRef(result)
    /\ HasSceneRef(result)
    /\ result.individual_glbs.items[1].t = "dict"
    /\ result.model_glb.t = "str"
    /\ result.model_glb.s # result.individual_glbs.items[1].s
    /\ glb_url = URL_OBJECT

-----------------------------------------------------------------------------
(* C8: a call whose last submission returned a job response ends without a  *)
(* download only when that response holds no mesh reference: neither in     *)
(* its first per-object entry nor in its combined field.                    *)
C8_UsableReferenceDownloaded ==
    (cpc = "done" /\ ResponseShapeFailed /\ result.t = "dict") =>
        ~(HasPerObjectRef(result) \/ HasSceneRef(result))

-----------------------------------------------------------------------------
(* C9: once the mesh is persisted the call returns success, whatever the    *)
(* statistics read does; a failed read yields the counts (0, 0), and no     *)
(* returned count is negative.                                              *)
C9_StatsNeverFail ==
    /\ cret.vertices_count >= 0
    /\ cret.faces_count >= 0
    /\ Persisted => cpc \in {"stats", "done"}
    /\ cpc = "stats" => ENABLED Stats
    /\ (cpc = "done" /\ Persisted) =>
          /\ cret.returned
          /\ cret.success
          /\ Ops(ctrace, "stats") # <<>>
    /\ (cpc = "done" /\ StatsFailed) =>
          /\ cret.success
          /\ cret.vertices_count = 0
          /\ cret.faces_count = 0

C9_Witness ==
    /\ cpc = "done"
    /\ Persisted
    /\ StatsFailed
    /\ cret.success
    /\ cret.vertices_count = 0
    /\ cret.faces_count = 0

-----------------------------------------------------------------------------
(* C10: a failed upload ends the call: it returns a failure after that one  *)
(* upload attempt, with no submission, no download and no mesh file         *)
(* written.                                                                 *)
C10_UploadFailureFatal ==
    UploadFailed =>
        /\ cpc = "done"
        /\ Len(Uploads) = 1
        /\ Len(ctrace) = 1
        /\ subs = <<>>
        /\ cret.returned
        /\ ~cret.success

C10_Witness ==
    /\ cpc = "done"
    /\ UploadFailed
    /\ Len(Uploads) = 1
    /\ ~cret.success

(* C11: a render request for a model identifier whose mesh file is not in
   the models directory ends with status 404, render_angle is never called
   for it, and it writes no file to the renders directory. Mesh files are
   never removed, so a file absent now was absent when the handler looked. *)
C11_MissingModelNotFound ==
    \A r \in Requests :
       (/\ reqs[r].kind = "render"
        /\ reqs[r].pc = "done"
        /\ models[reqs[r].model_id] = "absent")
       => /\ reqs[r].status = 404
          /\ ~reqs[r].invoked
          /\ reqs[r].path = NoPath
          /\ \A w \in renders : w.by # r

C11_Witness ==
    \E r \in Requests :
       /\ reqs[r].kind = "render"
       /\ reqs[r].pc = "done"
       /\ models[reqs[r].model_id] = "absent"
       /\ reqs[r].status = 404

(* C12: no step of a convert_2d_to_3d or render_angle call, the fallback to
   the placeholder included, changes the renderer recorded by RenderService
   or the key recorded by SAM3DService; these two attributes are all the
   state the services hold. *)
C12_ServiceStateFixed ==
    [][/\ renderer' = renderer
       /\ fal_key' = fal_key
       /\ probes' = probes]_vars

C12_Witness ==
    /\ rpc = "done"
    /\ renderer = "pyrender"
    /\ Did("backend_failed")
    /\ Did("mock_save_ok")
    /\ meshFile = "complete"

(* C13: startup probing records the first available backend in the order
   pyrender, matplotlib, placeholder, and always ends with one of the three
   selected, however the import of a backend fails. *)
C13_ProbingSelectsFirstAvailable ==
    /\ renderer \in {"pyrender", "matplotlib", "mock"}
    /\ renderer = "pyrender" <=> probes.pyrender = "ok"
    /\ renderer = "matplotlib" =>
          /\ probes.pyrender # "ok"
          /\ probes.matplotlib = "ok"
    /\ renderer = "mock" =>
          /\ probes.pyrender # "ok"
          /\ probes.matplotlib # "ok"

\* any step of the handler of request q
Step(q) ==
    \/ ArriveConvert(q)
    \/ ArriveRender(q)
    \/ ConvertStart(q)
    \/ UploadDone(q)
    \/ ConvertSubmit(q)
    \/ JobDone(q)
    \/ ConvertAfterJob(q)
    \/ DownloadDone(q)
    \/ ConvertPersist(q)
    \/ ConvertPreview(q)
    \/ RenderStart(q)
    \/ RenderFinish(q)

\* request q can take its next step unless another request's handler holds
\* the event-loop thread
CanStep(q) ==
    (reqs[q].pc # "done" /\ loop \in {0, q}) => ENABLED Step(q)

\* request q is kept from its next step by the handler of request r
StalledBy(q, r) ==
    /\ reqs[q].pc # "done"
    /\ loop = r
    /\ ~ENABLED Step(q)

(* C14: while a conversion waits for its upload, for the remote job (first
   submission or retry) or for the download, its handler does not hold the
   event-loop thread, and every other unfinished request can take its next
   step unless a third request holds the thread; so another request can
   arrive and run to its response before the wait ends. *)
C14_NetworkWaitsFreeTheLoop ==
    \A r \in Requests :
       reqs[r].pc \in NetworkWaits
       => /\ loop # r
          /\ \A q \in Requests \ {r} : CanStep(q) /\ ~StalledBy(q, r)

C14_Witness ==
    \E r \in Requests, q \in Requests :
       /\ r # q
       /\ reqs[r].pc = "downloading"
       /\ reqs[q].pc = "done"
       /\ reqs[q].status = 200

(* C15: while a request is inside render_angle (the preview of a conversion
   or the render of a render request), its handler does not hold the
   event-loop thread and keeps no other request from its next step. *)
C15_RenderOffTheLoop ==
    \A r \in Requests :
       reqs[r].pc \in Rendering
       => /\ loop # r
          /\ \A q \in Requests \ {r} : ~StalledBy(q, r)

\* two render requests for the same model that each derived a render path
RenderPair(r, q) ==
    /\ r # q
    /\ reqs[r].kind = "render"
    /\ reqs[q].kind = "render"
    /\ reqs[r].path # NoPath
    /\ reqs[q].path # NoPath
    /\ reqs[r].model_id = reqs[q].model_id

\* the two requests read the same timestamp and their pitch and yaw have
\* the same integer parts
SameNameParts(r, q) ==
    /\ reqs[r].timestamp = reqs[q].timestamp
    /\ int(reqs[r].pitch) = int(reqs[q].pitch)
    /\ int(reqs[r].yaw) = int(reqs[q].yaw)

(* C16, as claimed: any two render requests for the same model identifier
   derive different render file paths, so no render request writes to a
   file written by another. *)
C16_RenderPathsAlwaysDiffer ==
    /\ \A r \in Requests, q \in Requests :
          RenderPair(r, q) => reqs[r].path # reqs[q].path
    /\ \A v \in renders, w \in renders :
          (v.by # w.by /\ v.path.name = "render") => v.path # w.path

(* C16, amended: two render requests for the same model identifier derive
   different render file paths whenever they read different timestamps or
   the integer parts of their pitch or yaw differ, and then neither writes
   to the file of the other; two requests that agree on all three derive
   the same path. *)
C16_RenderPathsDifferByNameParts ==
    \A r \in Requests, q \in Requests :
       RenderPair(r, q)
       => /\ reqs[r].path = reqs[q].path <=> SameNameParts(r, q)
          /\ ~SameNameParts(r, q)
             => \A v \in renders, w \in renders :
                   (v.by = r /\ w.by = q) => v.path # w.path

C16_Witness ==
    \E r \in Requests, q \in Requests :
       /\ RenderPair(r, q)
       /\ reqs[r].pitch # reqs[q].pitch
       /\ int(reqs[r].pitch) = int(reqs[q].pitch)
       /\ reqs[r].yaw = reqs[q].yaw
       /\ reqs[r].timestamp # reqs[q].timestamp
       /\ \E v \in renders, w \in renders : v.by = r /\ w.by = q

(* C17: when the convert route has answered with success, the mesh file is
   in the models directory under the generated identifier and the preview
   image is in the renders directory at the path the preview URL names. *)
C17_SuccessMeansBothFiles ==
    \A r \in Requests :
       (/\ reqs[r].kind = "convert"
        /\ reqs[r].pc = "done"
        /\ reqs[r].status = 200)
       => /\ models[reqs[r].model_id] # "absent"
          /\ \E w \in renders : w.path = PreviewPath(reqs[r].model_id)

\* the call created or truncated the file at output_path
Opened ==
    \E i \in DOMAIN ctrace : ctrace[i].op = "open" /\ ctrace[i].out = "ok"

\* the writes of the downloaded bytes that completed
CompletedWrites ==
    SelectSeq(Writes, LAMBDA e : e.out = "ok")

\* the write of the downloaded bytes raised
WriteFailed ==
    \E i \in DOMAIN ctrace : ctrace[i].op = "write" /\ ctrace[i].out = "raised"

(* C18, as claimed: a finished call that returns success wrote the
   downloaded bytes to output_path exactly once, and a finished call that
   returns a failure did not touch the file at output_path. *)
C18_MeshWrittenIffSuccess ==
    cpc = "done"
    => /\ cret.success => Len(CompletedWrites) = 1 /\ Len(Writes) = 1
       /\ ~cret.success => ~Opened /\ Writes = <<>>

(* C18, amended: a finished call that returns success wrote the downloaded
   bytes to output_path exactly once and left a complete file there; a
   finished call that returns a failure completed no write, and it did not
   touch the file at output_path unless the failure is that of the write
   itself, which leaves a truncated file behind. Failures of configuration,
   upload, job, segmentation, response shape and download leave the file
   untouched. *)
C18_MeshWrittenOnSuccessOrFailedWrite ==
    cpc = "done"
    => /\ cret.success =>
             /\ Len(CompletedWrites) = 1
             /\ Len(Writes) = 1
             /\ meshFile = "complete"
       /\ ~cret.success =>
             /\ CompletedWrites = <<>>
             /\ Opened <=> WriteFailed
             /\ WriteFailed => meshFile = "partial" /\ Len(Writes) = 1
             /\ (\/ ConfigurationFailed
                 \/ UploadFailed
                 \/ Submits # <<>> /\ Downloads = <<>>
                 \/ Downloads # <<>> /\ Downloads[1].out = "raised")
                => ~Opened /\ Writes = <<>>

C18_Witness ==
    /\ cpc = "done"
    /\ ~cret.success
    /\ Downloads # <<>>
    /\ Downloads[1].out = "raised"
    /\ Downloads[1].exc.msg = MSG_TIMEOUT
    /\ meshFile = "absent"

(* C20: when a call submits a second time, the second submission has a
   detection threshold strictly below that of the first and no prompt, and
   the same image URL, seed and texture flag as the first; the image was
   uploaded once and nothing is submitted a third time. *)
C20_RetryDiffersAsSpecified ==
    Len(subs) >= 2
    => /\ Len(subs) = 2
       /\ subs[2].detection_threshold < subs[1].detection_threshold
       /\ ~subs[2].hasPrompt
       /\ subs[2].prompt = ""
       /\ subs[2].image_url = subs[1].image_url
       /\ subs[2].seed = subs[1].seed
       /\ subs[2].export_textured_glb = subs[1].export_textured_glb
       /\ Len(Uploads) = 1
       /\ Uploads[1].out = "ok"

C20_Witness ==
    /\ Len(subs) = 2
    /\ subs[1].hasPrompt
    /\ subs[1].seed = 7
    /\ Len(Uploads) = 1

(* C21: a call submits a second time only after its first submission raised
   a segmentation error; a first submission that returned, whatever it
   returned, or that raised another error is not followed by a second. *)
C21_RetryOnlyAfterSegmentationError ==
    Len(Submits) >= 2 => SegmentationFailed(1)

\* the place of an operation in the protocol of convert_2d_to_3d
Rank(op) ==
    CASE op = "upload" -> 1
      [] op = "submit" -> 2
      [] op = "download" -> 3
      [] op = "open" -> 4
      [] op = "write" -> 5
      [] op = "stats" -> 6

\* an operation with the given outcome was issued before position i
Before(i, op, out) ==
    \E j \in 1 .. (i - 1) : ctrace[j].op = op /\ ctrace[j].out = out

(* C22: in every call the operations are issued in the order upload,
   submit, retry, download, write, statistics. A job is submitted only for
   the URL a completed upload returned; a download starts only after the
   last submission returned a response and for the non-empty mesh URL read
   from it; statistics are read only after the mesh bytes were written. *)
C22_ProtocolOrder ==
    /\ \A i \in DOMAIN ctrace, j \in DOMAIN ctrace :
          i < j => Rank(ctrace[i].op) <= Rank(ctrace[j].op)
    /\ Len(Uploads) <= 1
    /\ Len(Submits) <= 2
    /\ Len(Downloads) <= 1
    /\ \A i \in DOMAIN ctrace :
          /\ ctrace[i].op = "submit" =>
                /\ Before(i, "upload", "ok")
                /\ ctrace[i].url = Uploads[1].url
          /\ ctrace[i].op = "download" =>
                /\ Submits # <<>>
                /\ Submits[Len(Submits)].out = "dict"
                /\ ctrace[i].url # ""
                /\ ctrace[i].url = glb_url
          /\ ctrace[i].op = "stats" => Before(i, "write", "ok")

C22_Witness ==
    /\ cpc = "done"
    /\ cret.success
    /\ Len(Submits) = 2
    /\ \E i \in DOMAIN ctrace : ctrace[i].op = "stats"

\* a call of convert_2d_to_3d is in progress
Called ==
    cpc \notin {"idle", "done"}

(* C23: every call of convert_2d_to_3d whose remote steps each complete or
   fail reaches its return with a result dict, and no call issues more than
   one upload, two submissions and one download. *)
C23_CallReturns ==
    /\ [](Len(Uploads) <= 1 /\ Len(Submits) <= 2 /\ Len(Downloads) <= 1)
    /\ Called ~> (cpc = "done" /\ cret.returned)

C23_Witness ==
    /\ cpc = "done"
    /\ cret.returned
    /\ ~cret.success
    /\ Len(Submits) = 2
    /\ SegmentationFailed(1)
    /\ SegmentationFailed(2)

====
